---- MODULE Spec2Model ----
(***************************************************************************)
(* A model of hbuster.py: the Charset, the CharsetGenerator and the        *)
(* HBusterSession scheduler with its asyncio workers.                      *)
(*                                                                         *)
(* Python strings are sequences of code points; a character is a Nat.      *)
(***************************************************************************)
EXTENDS Integers, Sequences, FiniteSets, TLC

(***************************************************************************)
(* Characters that the source names literally.                             *)
(***************************************************************************)
SLASH == 47
DOT == 46
DASH == 45
NEWLINE == 10
SPACE == 32
COMMA == 44
BACKSLASH == 92

\* the characters str.strip() removes (ASCII part of Python's whitespace)
Whitespace == {9, 10, 11, 12, 13, 28, 29, 30, 31, 32}

(***************************************************************************)
(* Bounds of the model.                                                    *)
(***************************************************************************)
MaxTasks == 2      \* --tasks ranges over 1..MaxTasks
MaxLength == 1     \* --max ranges over 1..MaxLength, --min up to one more
MaxIndex == 5      \* Charset.__getitem__ is called with -MaxIndex..MaxIndex
MaxPieces == 2     \* a Charset under test has 1..MaxPieces pieces
MaxRepeat == 2     \* a CharsetGenerator under test has lengths in 1..MaxRepeat
MaxText == 4       \* a --chars text under test has 1..MaxText characters

(***************************************************************************)
(* Small helpers over Python values.                                       *)
(***************************************************************************)
ord(c) == c[1]
chr(n) == <<n>>

RECURSIVE sum(_)
sum(xs) == IF xs = <<>> THEN 0 ELSE Head(xs) + sum(Tail(xs))

RECURSIVE join(_)
\* ''.join(p) and list concatenation: flatten a sequence of sequences
join(p) == IF p = <<>> THEN <<>> ELSE Head(p) \o join(Tail(p))

RECURSIVE lstrip(_)
lstrip(s) == IF s # <<>> /\ Head(s) \in Whitespace THEN lstrip(Tail(s)) ELSE s

RECURSIVE rstrip(_)
rstrip(s) ==
    IF s # <<>> /\ s[Len(s)] \in Whitespace
    THEN rstrip(SubSeq(s, 1, Len(s) - 1))
    ELSE s

\* str.strip(): leading and trailing whitespace removed
strip(s) == rstrip(lstrip(s))

\* pop as list.pop() without its index would do it: the last element goes
pop_last(xs, i) == SubSeq(xs, 1, Len(xs) - 1)

\* list.pop(i) with a 0-based index: the list without that element
pop(xs, i) == SubSeq(xs, 1, i) \o SubSeq(xs, i + 2, Len(xs))

(***************************************************************************)
(* class Charset                                                           *)
(***************************************************************************)
\* PIECE_PATTERN.match(piece) for r'^(?:(.)-(.))|(.+)$': the first
\* alternative is anchored at the start only, so "X-Y" followed by anything
\* is a range; the second is a run without newline up to the end (or up to a
\* final newline).  '.' does not match a newline.
PIECE_PATTERN(piece) ==
    IF /\ Len(piece) >= 3
       /\ piece[1] # NEWLINE /\ piece[2] = DASH /\ piece[3] # NEWLINE
    THEN [kind |-> "range", char1 |-> <<piece[1]>>, char2 |-> <<piece[3]>>,
          group3 |-> <<>>]
    ELSE LET body == IF piece # <<>> /\ piece[Len(piece)] = NEWLINE
                     THEN SubSeq(piece, 1, Len(piece) - 1)
                     ELSE piece
         IN IF body # <<>> /\ \A i \in 1..Len(body) : body[i] # NEWLINE
            THEN [kind |-> "literal", char1 |-> <<>>, char2 |-> <<>>,
                  group3 |-> body]
            ELSE [kind |-> "none", char1 |-> <<>>, char2 |-> <<>>,
                  group3 |-> <<>>]

\* Charset.__init__ with the size of a range counted inclusively
Charset_piece_inclusive(piece) ==
    LET match == PIECE_PATTERN(piece)
    IN IF match.kind = "literal"
       THEN [piece |-> <<match.group3>>, size |-> 1]
       ELSE IF match.char1 = match.char2
            THEN [piece |-> <<match.char1>>, size |-> 1]
            ELSE LET lo == IF ord(match.char1) > ord(match.char2)
                           THEN match.char2 ELSE match.char1
                     hi == IF ord(match.char1) > ord(match.char2)
                           THEN match.char1 ELSE match.char2
                 IN [piece |-> <<lo, hi>>, size |-> ord(hi) - ord(lo) + 1]

\* one iteration of the loop of Charset.__init__: the (piece, size) appended
Charset_piece(piece) ==
    LET match == PIECE_PATTERN(piece)
    IN IF match.kind = "literal"
       THEN [piece |-> <<match.group3>>, size |-> 1]
       ELSE IF match.char1 = match.char2
            THEN [piece |-> <<match.char1>>, size |-> 1]
            ELSE LET lo == IF ord(match.char1) > ord(match.char2)
                           THEN match.char2 ELSE match.char1
                     hi == IF ord(match.char1) > ord(match.char2)
                           THEN match.char1 ELSE match.char2
                 IN [piece |-> <<lo, hi>>, size |-> ord(hi) - ord(lo)]

\* Charset(*pieces): ok = FALSE stands for the ValueError of an unmatched piece
Charset(pieces) ==
    IF \E i \in 1..Len(pieces) : PIECE_PATTERN(pieces[i]).kind = "none"
    THEN [ok |-> FALSE, pieces |-> <<>>, sizes |-> <<>>]
    ELSE [ok |-> TRUE,
          pieces |-> [i \in 1..Len(pieces) |-> Charset_piece(pieces[i]).piece],
          sizes |-> [i \in 1..Len(pieces) |-> Charset_piece(pieces[i]).size]]

\* Charset.__str__ with the two ends of a range put side by side
Charset_str_bare(cs) ==
    LET text(piece) == IF Len(piece) = 1 THEN piece[1]
                       ELSE piece[1] \o piece[2]
    IN join([k \in 1..Len(cs.pieces) |->
               IF k = 1 THEN text(cs.pieces[k])
               ELSE <<COMMA>> \o text(cs.pieces[k])])

\* Charset.__str__: ','.join('-'.join(piece) for piece in self.pieces)
Charset_str(cs) ==
    LET text(piece) == IF Len(piece) = 1 THEN piece[1]
                       ELSE piece[1] \o <<DASH>> \o piece[2]
    IN join([k \in 1..Len(cs.pieces) |->
               IF k = 1 THEN text(cs.pieces[k])
               ELSE <<COMMA>> \o text(cs.pieces[k])])

\* Charset.__len__
Charset_len(cs) == sum(cs.sizes)

\* what a call gave back: a value, or None
Value(v) == [kind |-> "value", val |-> v]
NoneValue == [kind |-> "None", val |-> <<>>]

\* the state of one generator made by Charset.__iter__: the piece it stands
\* at (1-based) and how many points of that piece's range it has yielded
IterStart == [k |-> 1, offset |-> 0]

RECURSIVE Charset_next_inclusive(_, _)
\* next() on a generator that also yields the upper end of a range
Charset_next_inclusive(cs, it) ==
    IF it.k > Len(cs.pieces)
    THEN [kind |-> "StopIteration", val |-> <<>>, it |-> it]
    ELSE LET piece == cs.pieces[it.k]
         IN IF Len(piece) = 1
            THEN [kind |-> "value", val |-> piece[1],
                  it |-> [k |-> it.k + 1, offset |-> 0]]
            ELSE LET point == ord(piece[1]) + it.offset
                 IN IF point <= ord(piece[2])
                    THEN [kind |-> "value", val |-> chr(point),
                          it |-> [k |-> it.k, offset |-> it.offset + 1]]
                    ELSE Charset_next_inclusive(cs, [k |-> it.k + 1, offset |-> 0])

RECURSIVE Charset_next(_, _)
\* next() on a generator of Charset.__iter__
Charset_next(cs, it) ==
    IF it.k > Len(cs.pieces)
    THEN [kind |-> "StopIteration", val |-> <<>>, it |-> it]
    ELSE LET piece == cs.pieces[it.k]
         IN IF Len(piece) = 1
            THEN [kind |-> "value", val |-> piece[1],
                  it |-> [k |-> it.k + 1, offset |-> 0]]
            ELSE LET point == ord(piece[1]) + it.offset
                 IN IF point < ord(piece[2])
                    THEN [kind |-> "value", val |-> chr(point),
                          it |-> [k |-> it.k, offset |-> it.offset + 1]]
                    ELSE Charset_next(cs, [k |-> it.k + 1, offset |-> 0])

RECURSIVE Charset_drain(_, _)
\* everything a generator of Charset.__iter__ still yields, in order
Charset_drain(cs, it) ==
    LET r == Charset_next(cs, it)
    IN IF r.kind = "StopIteration"
       THEN <<>>
       ELSE <<r.val>> \o Charset_drain(cs, r.it)

\* tuple(Charset.__iter__()): the whole sequence of symbols, in order
Charset_iter(cs) == Charset_drain(cs, IterStart)

RECURSIVE Charset_getitem_loop(_, _, _)
\* the for loop of Charset.__getitem__, from piece k on (1-based)
Charset_getitem_loop(cs, k, index) ==
    IF k > Len(cs.pieces)
    THEN NoneValue   \* the loop ends and the function falls off its end
    ELSE IF index >= cs.sizes[k]
         THEN Charset_getitem_loop(cs, k + 1, index - cs.sizes[k])
         ELSE IF cs.sizes[k] = 1
              THEN Value(cs.pieces[k][1])
              ELSE Value(chr(ord(cs.pieces[k][1]) + index))

\* Charset.__getitem__
Charset_getitem(cs, index) ==
    Charset_getitem_loop(cs, 1,
        IF index < 0 THEN Charset_len(cs) - index ELSE index)

(***************************************************************************)
(* class CharsetGenerator                                                  *)
(***************************************************************************)
RECURSIVE product_leftmost(_, _)
\* a product whose leftmost position varies fastest
product_leftmost(syms, l) ==
    IF l = 0
    THEN << <<>> >>
    ELSE LET rest == product_leftmost(syms, l - 1)
             n == Len(syms)
         IN [i \in 1..(Len(rest) * n) |->
                <<syms[((i - 1) % n) + 1]>> \o rest[((i - 1) \div n) + 1]]

RECURSIVE product(_, _)
\* itertools.product(chars, repeat=l): the rightmost position varies fastest
product(syms, l) ==
    IF l = 0
    THEN << <<>> >>
    ELSE LET rest == product(syms, l - 1)
             n == Len(rest)
         IN [i \in 1..(Len(syms) * n) |->
                <<syms[((i - 1) \div n) + 1]>> \o rest[((i - 1) % n) + 1]]

\* CharsetGenerator.__iter__: every string it yields, in order
CharsetGenerator_iter(chars, mi, ma) ==
    join([d \in 1..(IF ma >= mi THEN ma - mi + 1 ELSE 0) |->
            LET p == product(Charset_iter(chars), mi + d - 1)
            IN [i \in 1..Len(p) |-> join(p[i])]])


\* the generator made by CharsetGenerator.__iter__, before its first next():
\* the value of l and how many tuples of product(chars, repeat=l) it has
\* taken
GeneratorStart(mi) == [l |-> mi, taken |-> 0]

RECURSIVE CharsetGenerator_next(_, _, _)
\* next() on that generator
CharsetGenerator_next(chars, ma, it) ==
    IF it.l > ma
    THEN [kind |-> "StopIteration", val |-> <<>>, it |-> it]
    ELSE LET p == product(Charset_iter(chars), it.l)
         IN IF it.taken < Len(p)
            THEN [kind |-> "value", val |-> join(p[it.taken + 1]),
                  it |-> [l |-> it.l, taken |-> it.taken + 1]]
            ELSE CharsetGenerator_next(chars, ma,
                                       [l |-> it.l + 1, taken |-> 0])

(***************************************************************************)
(* The state.                                                              *)
(*   args     the command line: tasks, dirlist (given, lines of the file), *)
(*            chars (the split piece specs), min, max, recursive,          *)
(*            extensions, host                                             *)
(*   net      the HTTP collaborator behind session.get: the paths whose    *)
(*            status is in validStatus, and the paths whose request raises *)
(*            (testPath awaits resp.status() and looks the result up in    *)
(*            validStatus: the answer "valid" is the collaborator's)       *)
(*   candidates  what every candidate source of the run yields, in order   *)
(*   phase    "cli", "ValueError", "BadParameter", "running", "finished",  *)
(*            "aborted"                                                    *)
(*   session  the HBusterSession object                                    *)
(*   tasks    per worker id: where its coroutine stands                    *)
(*   returns  how many calls of testPath have returned                     *)
(*   probed   the paths testPath returned for                              *)
(*   charset, lookup, iteration   a Charset under test, the last indexed   *)
(*            access to it, and one generator over it with what it yielded *)
(*   enumeration  a CharsetGenerator under test: its chars, minLength and  *)
(*            maxLength, the generator of the running enumeration, what it *)
(*            yielded, and what the enumeration before it yielded          *)
(*   roundtrip  a --chars text under test: the text, the Charset converted *)
(*            from it, the str() of that Charset, the Charset converted    *)
(*            from that, and how far this has got                          *)
(***************************************************************************)
VARIABLES args, net, candidates, phase, session, tasks, returns, probed,
          charset, lookup, iteration, enumeration, roundtrip

vars == <<args, net, candidates, phase, session, tasks, returns, probed,
          charset, lookup, iteration, enumeration, roundtrip>>
schedulerVars ==
    <<args, net, candidates, phase, session, tasks, returns, probed>>
charsetVars ==
    <<charset, lookup, iteration, enumeration, roundtrip>>

(***************************************************************************)
(* Inputs.  "a" = 97, "b" = 98, "c" = 99, "h" = 104, "p" = 112.            *)
(***************************************************************************)
\* --chars a-c : the symbols a, b
CharsAB == << <<97, DASH, 99>> >>

\* word list files, line by line as next(file) returns them
DirLists ==
    { << <<97, NEWLINE>>, <<98, NEWLINE>> >>,                   \* a, b
      << <<97, NEWLINE>>, <<97, NEWLINE>> >>,                   \* a, a
      << <<SPACE, 97, SPACE, NEWLINE>>, <<97, SLASH, 98, NEWLINE>>,
         <<98>> >> }                                             \* " a ", a/b, b

\* the candidate sources: a word list, or the generator with min and max
Sources ==
    [dirlist : [given : {TRUE}, lines : DirLists],
     chars : {CharsAB}, min : 1..(MaxLength + 1), max : {1}]
    \cup
    [dirlist : {[given |-> FALSE, lines |-> <<>>]},
     chars : {CharsAB}, min : 1..(MaxLength + 1), max : 1..MaxLength]
    \cup
    [dirlist : {[given |-> FALSE, lines |-> <<>>]},
     chars : {<<>>}, min : {1}, max : {1}]

\* the collaborator's answers
Nets ==
    { [valid |-> {}, error |-> {}],
      [valid |-> {<<SLASH, 97>>}, error |-> {}],
      [valid |-> {<<SLASH, 97>>, <<SLASH, 97, DOT>>}, error |-> {}],
      [valid |-> {<<SLASH, 97>>, <<SLASH, 97, SLASH, 98>>}, error |-> {}],
      [valid |-> {<<SLASH, 97>>, <<SLASH, 98>>}, error |-> {}],
      [valid |-> {<<SLASH, 97, SLASH, 98>>}, error |-> {}],
      [valid |-> {<<SLASH, 97>>}, error |-> {<<SLASH, 98>>}] }

\* --extensions: not given (None), or the text p
NoExtensions == [given |-> FALSE, value |-> <<>>]
ExtensionArgs == { NoExtensions, [given |-> TRUE, value |-> <<112>>] }
HostArgs == { <<104, SLASH>> }

(***************************************************************************)
(* hbuster(): the start of the program                                     *)
(***************************************************************************)
RECURSIVE splitByExcaped_for(_, _, _, _)
\* the loop of CharsetType.splitByExcaped over the rest of the string
splitByExcaped_for(string, pieces, current, escaped) ==
    IF string = <<>>
    THEN [pieces |-> IF current # <<>> THEN Append(pieces, current)
                     ELSE pieces,
          escaped |-> escaped]
    ELSE LET c == Head(string)
         IN IF escaped
            THEN splitByExcaped_for(Tail(string), pieces,
                                    Append(current, c), FALSE)
            ELSE IF c = BACKSLASH
            THEN splitByExcaped_for(Tail(string), pieces, current, TRUE)
            ELSE IF c = COMMA
            THEN IF current # <<>>
                 THEN splitByExcaped_for(Tail(string),
                                         Append(pieces, current), <<>>, FALSE)
                 ELSE splitByExcaped_for(Tail(string), pieces, current, FALSE)
            ELSE splitByExcaped_for(Tail(string), pieces,
                                    Append(current, c), FALSE)

\* CharsetType(',', '\\').splitByExcaped: ok = FALSE stands for the
\* ValueError of an escape character that escapes nothing
splitByExcaped(string) ==
    LET r == splitByExcaped_for(string, <<>>, <<>>, FALSE)
    IN [ok |-> ~r.escaped, pieces |-> r.pieces]

\* CharsetType.convert: the Charset, or the ValueError of an invalid or empty one
CharsetType_convert(pieces) ==
    LET cs == Charset(pieces)
    IN IF cs.ok /\ Charset_len(cs) # 0 THEN cs ELSE [cs EXCEPT !.ok = FALSE]

\* CharsetType.convert on the text of the option
CharsetType_convert_str(value) ==
    LET split == splitByExcaped(value)
    IN IF split.ok THEN CharsetType_convert(split.pieces)
       ELSE [ok |-> FALSE, pieces |-> <<>>, sizes |-> <<>>]

\* the check of min against max
hbuster_BadParameter(a) == a.dirlist.given /\ a.min > a.max

\* the extension list handed to the session: the parameter is overwritten
\* by [''] before it is read
hbuster_extensions(given) ==
    LET extensions == << <<>> >>
    IN extensions \o [i \in 1..Len(extensions) |-> <<DOT>> \o extensions[i]]

\* the host without a trailing /
hbuster_host(host) ==
    IF host[Len(host)] = SLASH THEN SubSeq(host, 1, Len(host) - 1) ELSE host

\* HBusterSession.__init__.  Next to the fields of the object the session
\* carries a record of what happened to its two lists:
\*   jobIds    for every job of workPools, the number of the append that made
\*             it (the root job is number 1)
\*   fileIds   for every source of poolFiles, the number of the addFile call
\*             that made it
\*   yielded   for every source of poolFiles, the indices (from 0) of the
\*             elements next() has given from it, in order
\*   jobsMade, filesMade   how many jobs and sources were made so far
\*   everJobs  the prefix of every job made so far
\*   removed   for every pop of the two lists: the job and the source that
\*             were popped, where the source stood and what it had yielded
HBusterSession_init(a) ==
    [numTasks |-> a.tasks,
     listBased |-> a.dirlist.given,
     recursive |-> a.recursive,
     extensions |-> hbuster_extensions(a.extensions),
     host |-> hbuster_host(a.host),
     workPools |-> << <<>> >>,
     poolFiles |-> <<0>>,
     seen |-> { <<>> },
     found |-> <<>>,
     requests |-> 0,
     jobIds |-> <<1>>, fileIds |-> <<1>>, yielded |-> << <<>> >>,
     jobsMade |-> 1, filesMade |-> 1, everJobs |-> { <<>> },
     removed |-> {}]

\* the session before it is constructed
NoSession ==
    [numTasks |-> 0, listBased |-> FALSE, recursive |-> FALSE,
     extensions |-> <<>>, host |-> <<>>, workPools |-> <<>>,
     poolFiles |-> <<>>, seen |-> {}, found |-> <<>>, requests |-> 0,
     jobIds |-> <<>>, fileIds |-> <<>>, yielded |-> <<>>,
     jobsMade |-> 0, filesMade |-> 0, everJobs |-> {}, removed |-> {}]

\* what every source made by addFile yields, in order: the lines of the word
\* list or the strings of the generator.  poolFiles[i] is the number of
\* elements the i-th source has yielded.
Candidates(a) ==
    IF a.dirlist.given
    THEN a.dirlist.lines
    ELSE CharsetGenerator_iter(Charset(a.chars), a.min, a.max)

(***************************************************************************)
(* HBusterSession.task: one worker coroutine.  asyncio runs a coroutine    *)
(* without interruption from one await to the next; the only await of the  *)
(* loop is the call of testPath.  task_while and task_for run the          *)
(* coroutine from a point of its loops to its next suspension or to its    *)
(* return, and give the session as it then is and where the worker stands. *)
(***************************************************************************)
Suspended(s, path, k) ==
    [session |-> s, task |-> [pc |-> "testPath", path |-> path, k |-> k]]

Returned(s) ==
    [session |-> s, task |-> [pc |-> "done", path |-> <<>>, k |-> 0]]

Crashed(s) ==
    [session |-> s, task |-> [pc |-> "crashed", path |-> <<>>, k |-> 0]]

NotStarted == [pc |-> "new", path |-> <<>>, k |-> 0]

\* addFile handing out a source that stands where the first source stands
addFile_shared(s) ==
    [s EXCEPT !.poolFiles = Append(@, IF @ = <<>> THEN 0 ELSE @[1]),
              !.fileIds = Append(@, s.filesMade + 1),
              !.yielded = Append(@, <<>>),
              !.filesMade = @ + 1]

\* HBusterSession.addFile: one more source, at its first element
addFile(s) ==
    [s EXCEPT !.poolFiles = Append(@, 0),
              !.fileIds = Append(@, s.filesMade + 1),
              !.yielded = Append(@, <<>>),
              !.filesMade = @ + 1]

\* next() passing over an element when another one follows it
task_next_skips(s, currentJob, source) ==
    LET position == s.poolFiles[currentJob + 1]
        index == IF position + 1 < Len(source) THEN position + 1
                 ELSE position
    IN [s EXCEPT !.poolFiles[currentJob + 1] = index + 1,
                 !.yielded[currentJob + 1] = Append(@, index)]

\* next(self.poolFiles[currentJob]) when the source has an element left:
\* the source gives the element it stands at and moves on by one
task_next(s, currentJob, source) ==
    LET position == s.poolFiles[currentJob + 1]
    IN [s EXCEPT !.poolFiles[currentJob + 1] = position + 1,
                 !.yielded[currentJob + 1] = Append(@, position)]

\* the handler popping the last source of the list
task_StopIteration_last(s, currentJob) ==
    [s EXCEPT !.workPools = pop(@, currentJob),
              !.poolFiles = pop(@, Len(@) - 1),
              !.jobIds = pop(@, currentJob),
              !.fileIds = pop(@, Len(@) - 1),
              !.yielded = pop(@, Len(@) - 1),
              !.removed = @ \cup
                  { [job |-> s.jobIds[currentJob + 1],
                     file |-> s.fileIds[Len(s.fileIds)],
                     position |-> s.poolFiles[Len(s.poolFiles)],
                     yielded |-> s.yielded[Len(s.yielded)]] }]

\* the handler of StopIteration: the job and the source at currentJob are
\* popped
task_StopIteration(s, currentJob) ==
    [s EXCEPT !.workPools = pop(@, currentJob),
              !.poolFiles = pop(@, currentJob),
              !.jobIds = pop(@, currentJob),
              !.fileIds = pop(@, currentJob),
              !.yielded = pop(@, currentJob),
              !.removed = @ \cup
                  { [job |-> s.jobIds[currentJob + 1],
                     file |-> s.fileIds[currentJob + 1],
                     position |-> s.poolFiles[currentJob + 1],
                     yielded |-> s.yielded[currentJob + 1]] }]

RECURSIVE task_while(_, _, _)
RECURSIVE task_for(_, _, _, _, _)

\* from the test of "while self.workPools" on, for worker id; source is what
\* every candidate source yields
task_while(s, id, source) ==
    IF s.workPools = <<>>
    THEN Returned(s)
    ELSE LET currentJob == id % Len(s.workPools)
             confirmed == s.workPools[currentJob + 1]
             position == s.poolFiles[currentJob + 1]
         IN IF position >= Len(source)
            THEN \* StopIteration
                 task_while(task_StopIteration(s, currentJob), id, source)
            ELSE LET s1 == task_next(s, currentJob, source)
                     given == s1.yielded[currentJob + 1]
                     extension == strip(source[given[Len(given)] + 1])
                     path == confirmed \o <<SLASH>> \o extension
                 IN IF path \in s1.seen
                    THEN task_while(s1, id, source)
                    ELSE task_for(s1, id, source, path, 1)

\* from the head of "for fileExt in self.extensions", at its k-th element
task_for(s, id, source, path, k) ==
    IF k > Len(s.extensions)
    THEN task_while(s, id, source)
    ELSE Suspended(s, path, k)

\* the path a suspended worker has handed to testPath
TestedPath(s, t) == t.path \o s.extensions[t.k]

\* the body of the loop with the recursion left out
task_valid_flat(s, path) == s

\* the body of the loop without self.seen.add(path)
task_valid_unseen(s, path) ==
    IF s.recursive
    THEN addFile([s EXCEPT !.workPools = Append(@, path),
                           !.jobIds = Append(@, s.jobsMade + 1),
                           !.jobsMade = @ + 1,
                           !.everJobs = @ \cup {path}])
    ELSE s

\* the body of the loop after testPath returned True
task_valid(s, path) ==
    IF s.recursive
    THEN [addFile([s EXCEPT !.workPools = Append(@, path),
                            !.jobIds = Append(@, s.jobsMade + 1),
                            !.jobsMade = @ + 1,
                            !.everJobs = @ \cup {path}])
             EXCEPT !.seen = @ \cup {path}]
    ELSE s

\* testPath recording the path instead of the URL
testPath_path(s, path, valid) ==
    IF valid THEN [s EXCEPT !.found = Append(@, path)] ELSE s

\* testPath after the response arrived: found grows on a valid status
testPath(s, path, valid) ==
    IF valid THEN [s EXCEPT !.found = Append(@, s.host \o path)] ELSE s

\* the worker counting a request only when it was valid
task_resume_counts_valid(s, id, source, t, valid) ==
    LET s1 == testPath(s, TestedPath(s, t), valid)
        s2 == IF valid THEN task_valid(s1, t.path) ELSE s1
        s3 == IF valid THEN [s2 EXCEPT !.requests = @ + 1] ELSE s2
    IN task_for(s3, id, source, t.path, t.k + 1)

\* the worker from the return of testPath to its next suspension
task_resume(s, id, source, t, valid) ==
    LET s1 == testPath(s, TestedPath(s, t), valid)
        s2 == IF valid THEN task_valid(s1, t.path) ELSE s1
        s3 == [s2 EXCEPT !.requests = @ + 1]
    IN task_for(s3, id, source, t.path, t.k + 1)

(***************************************************************************)
(* The program: hbuster() and HBusterSession.start with its workers.       *)
(***************************************************************************)
Workers == DOMAIN tasks

\* hbuster() up to the construction of the session (click converts --chars
\* before the function body runs)
hbuster ==
    /\ phase = "cli"
    /\ IF ~CharsetType_convert(args.chars).ok
       THEN phase' = "ValueError" /\ UNCHANGED <<session, tasks>>
       ELSE IF hbuster_BadParameter(args)
            THEN phase' = "BadParameter" /\ UNCHANGED <<session, tasks>>
            ELSE /\ phase' = "running"
                 /\ session' = HBusterSession_init(args)
                 /\ tasks' = [id \in 0..(args.tasks - 1) |-> NotStarted]
    /\ UNCHANGED <<args, net, candidates, returns, probed, charsetVars>>

\* the first step of worker id: gather starts the coroutines in the order
\* of their ids, each running to its first await
task_start(id) ==
    /\ phase = "running"
    /\ tasks[id].pc = "new"
    /\ \A j \in Workers : j < id => tasks[j].pc # "new"
    /\ LET r == task_while(session, id, candidates)
       IN /\ session' = r.session
          /\ tasks' = [tasks EXCEPT ![id] = r.task]
    /\ UNCHANGED <<args, net, candidates, phase, returns, probed, charsetVars>>

\* the response for worker id arrives and testPath returns
testPath_returns(id) ==
    /\ phase = "running"
    /\ tasks[id].pc = "testPath"
    /\ \A j \in Workers : tasks[j].pc # "new"
    /\ LET path == TestedPath(session, tasks[id])
       IN /\ path \notin net.error
          /\ LET r == task_resume(session, id, candidates, tasks[id],
                                   path \in net.valid)
             IN /\ session' = r.session
                /\ tasks' = [tasks EXCEPT ![id] = r.task]
          /\ returns' = returns + 1
          /\ probed' = probed \cup {path}
    /\ UNCHANGED <<args, net, candidates, phase, charsetVars>>

\* the request of worker id fails: nothing catches the exception, it ends
\* the coroutine
testPath_raises(id) ==
    /\ phase = "running"
    /\ tasks[id].pc = "testPath"
    /\ \A j \in Workers : tasks[j].pc # "new"
    /\ TestedPath(session, tasks[id]) \in net.error
    /\ tasks' = [tasks EXCEPT ![id] = Crashed(session).task]
    /\ UNCHANGED <<args, net, candidates, phase, session, returns, probed, charsetVars>>

\* the request of worker id is never answered: its await never returns (no
\* timeout is set), the coroutine stays where it is
testPath_hangs(id) ==
    /\ phase = "running"
    /\ tasks[id].pc = "testPath"
    /\ \A j \in Workers : tasks[j].pc \notin {"new", "hung"}
    /\ tasks' = [tasks EXCEPT ![id].pc = "hung"]
    /\ UNCHANGED <<args, net, candidates, phase, session, returns, probed, charsetVars>>

\* start() going on as soon as one worker has returned
start_first_completed ==
    /\ phase = "running"
    /\ \E id \in Workers : tasks[id].pc = "done"
    /\ phase' = "finished"
    /\ UNCHANGED <<args, net, candidates, session, tasks, returns, probed, charsetVars>>

\* start(): gather returned, every worker has returned
start_finished ==
    /\ phase = "running"
    /\ \A id \in Workers : tasks[id].pc = "done"
    /\ phase' = "finished"
    /\ UNCHANGED <<args, net, candidates, session, tasks, returns, probed, charsetVars>>

\* start(): gather raised the exception of a worker; it leaves start() and
\* run_until_complete, and the loop is closed with the other workers where
\* they stand (until then they may still be resumed)
start_aborted ==
    /\ phase = "running"
    /\ \E id \in Workers : tasks[id].pc = "crashed"
    /\ phase' = "aborted"
    /\ UNCHANGED <<args, net, candidates, session, tasks, returns, probed, charsetVars>>

(***************************************************************************)
(* Calls on a Charset.                                                     *)
(***************************************************************************)
\* charset[index]
Charset_getitem_call(index) ==
    /\ lookup' = [called |-> TRUE, index |-> index,
                  result |-> Charset_getitem(charset, index)]
    /\ UNCHANGED <<charset, iteration, enumeration, roundtrip, schedulerVars>>

\* next() on the generator
Charset_next_call ==
    /\ ~iteration.stopped
    /\ LET r == Charset_next(charset, iteration.it)
       IN iteration' =
            IF r.kind = "StopIteration"
            THEN [iteration EXCEPT !.stopped = TRUE]
            ELSE [it |-> r.it, out |-> Append(iteration.out, r.val),
                  stopped |-> FALSE]
    /\ UNCHANGED <<charset, lookup, enumeration, roundtrip, schedulerVars>>

\* next() on the generator of the running enumeration
CharsetGenerator_next_call ==
    /\ ~enumeration.stopped
    /\ LET r == CharsetGenerator_next(enumeration.chars, enumeration.max,
                                      enumeration.it)
       IN enumeration' =
            IF r.kind = "StopIteration"
            THEN [enumeration EXCEPT !.stopped = TRUE]
            ELSE [enumeration EXCEPT !.it = r.it,
                                     !.out = Append(@, r.val)]
    /\ UNCHANGED <<charset, lookup, iteration, roundtrip, schedulerVars>>

\* iter() on the CharsetGenerator once more, after the first generator is
\* exhausted: a new generator
CharsetGenerator_iter_call ==
    /\ enumeration.stopped
    /\ enumeration.pass = 1
    /\ enumeration' =
          [enumeration EXCEPT !.pass = 2,
                              !.it = GeneratorStart(enumeration.min),
                              !.before = enumeration.out,
                              !.out = <<>>,
                              !.stopped = FALSE]
    /\ UNCHANGED <<charset, lookup, iteration, roundtrip, schedulerVars>>

\* CharsetType.convert on the text under test, and then on the str() of the
\* Charset it gave
CharsetType_convert_call ==
    /\ roundtrip.stage \in {"text", "formatted"}
    /\ roundtrip' =
          IF roundtrip.stage = "text"
          THEN LET cs == CharsetType_convert_str(roundtrip.text)
               IN [roundtrip EXCEPT
                     !.first = cs,
                     !.stage = IF cs.ok THEN "parsed" ELSE "ValueError"]
          ELSE [roundtrip EXCEPT
                  !.second = CharsetType_convert_str(roundtrip.str),
                  !.stage = "reparsed"]
    /\ UNCHANGED <<charset, lookup, iteration, enumeration, schedulerVars>>

\* str() on the Charset converted from the text
Charset_str_call ==
    /\ roundtrip.stage = "parsed"
    /\ roundtrip' = [roundtrip EXCEPT !.str = Charset_str(roundtrip.first),
                                      !.stage = "formatted"]
    /\ UNCHANGED <<charset, lookup, iteration, enumeration, schedulerVars>>

(***************************************************************************)
(* Initial states and specifications.                                      *)
(***************************************************************************)
NoLookup == [called |-> FALSE, index |-> 0, result |-> NoneValue]
NewIteration == [it |-> IterStart, out |-> <<>>, stopped |-> FALSE]
NoCharset == [ok |-> FALSE, pieces |-> <<>>, sizes |-> <<>>]
NewRoundTrip(text) ==
    [text |-> text, stage |-> "text", first |-> NoCharset, str |-> <<>>,
     second |-> NoCharset]
NewEnumeration(chars, mi, ma) ==
    [chars |-> chars, min |-> mi, max |-> ma, pass |-> 1,
     it |-> GeneratorStart(mi), out |-> <<>>, before |-> <<>>,
     stopped |-> FALSE]

\* piece specs as splitByExcaped hands them over:
\* a-c, c-a, a-a, a-b, pq, -, a-cq
PieceSpecs ==
    { <<97, DASH, 99>>, <<99, DASH, 97>>, <<97, DASH, 97>>,
      <<97, DASH, 98>>, <<112, 113>>, <<DASH>>, <<97, DASH, 99, 113>> }

PieceLists ==
    UNION { [1..n -> PieceSpecs] : n \in 1..MaxPieces }

\* the command lines
Args ==
    { [tasks |-> t, dirlist |-> src.dirlist, chars |-> src.chars,
       min |-> src.min, max |-> src.max, recursive |-> r,
       extensions |-> e, host |-> h] :
      t \in 1..MaxTasks, src \in Sources, r \in BOOLEAN,
      e \in ExtensionArgs, h \in HostArgs }

\* the program before hbuster() runs
BeforeStart ==
    /\ candidates = Candidates(args)
    /\ phase = "cli"
    /\ session = NoSession
    /\ tasks = <<>>
    /\ returns = 0
    /\ probed = {}

\* a Charset that nothing is asked of
CharsetAtRest ==
    /\ charset = Charset(CharsAB)
    /\ lookup = NoLookup
    /\ iteration = NewIteration
    /\ enumeration = NewEnumeration(Charset(CharsAB), 1, 1)
    /\ roundtrip = NewRoundTrip(<<97>>)

Init ==
    /\ args \in Args
    /\ net \in Nets
    /\ BeforeStart
    /\ CharsetAtRest

Next ==
    \/ hbuster
    \/ \E id \in Workers : task_start(id)
    \/ \E id \in Workers : testPath_returns(id)
    \/ \E id \in Workers : testPath_raises(id)
    \/ start_finished
    \/ start_aborted

Spec == Init /\ [][Next]_vars

\* The runs without --recursive against a collaborator that answers every
\* request.  The event loop runs every coroutine that can run, and start()
\* goes on when gather is done.
AnsweringInit ==
    /\ args \in { a \in Args : ~a.recursive }
    /\ net \in { n \in Nets : n.error = {} }
    /\ BeforeStart
    /\ CharsetAtRest

AnsweringNext ==
    \/ hbuster
    \/ \E id \in Workers : task_start(id)
    \/ \E id \in Workers : testPath_returns(id)
    \/ start_finished

FairSpec ==
    /\ AnsweringInit /\ [][AnsweringNext]_vars
    /\ WF_vars(hbuster)
    /\ \A id \in 0..(MaxTasks - 1) :
          WF_vars(id \in Workers /\ (task_start(id) \/ testPath_returns(id)))
    /\ WF_vars(start_finished)

\* The runs of two or more workers against a collaborator that raises
\* nothing and leaves at most one request without an answer.  The event loop
\* runs every coroutine that can run.
HangInit ==
    /\ args \in { a \in Args : a.tasks >= 2 }
    /\ net \in { n \in Nets : n.error = {} }
    /\ BeforeStart
    /\ CharsetAtRest

HangNext ==
    \/ hbuster
    \/ \E id \in Workers : task_start(id)
    \/ \E id \in Workers : testPath_returns(id)
    \/ \E id \in Workers : testPath_hangs(id)
    \/ start_finished

HangSpec ==
    /\ HangInit /\ [][HangNext]_vars
    /\ WF_vars(hbuster)
    /\ \A id \in 0..(MaxTasks - 1) :
          WF_vars(id \in Workers /\ (task_start(id) \/ testPath_returns(id)))
    /\ WF_vars(start_finished)

CharsetInit ==
    /\ charset \in { Charset(p) : p \in PieceLists }
    /\ charset.ok
    /\ lookup = NoLookup
    /\ iteration = NewIteration
    /\ enumeration = NewEnumeration(Charset(CharsAB), 1, 1)
    /\ roundtrip = NewRoundTrip(<<97>>)
    /\ args = [tasks |-> 1, dirlist |-> [given |-> FALSE, lines |-> <<>>],
               chars |-> CharsAB, min |-> 1, max |-> 1, recursive |-> FALSE,
               extensions |-> NoExtensions, host |-> <<104>>]
    /\ net = [valid |-> {}, error |-> {}]
    /\ BeforeStart

CharsetNext ==
    \/ \E index \in (0 - MaxIndex)..MaxIndex : Charset_getitem_call(index)
    \/ Charset_next_call

CharsetSpec == CharsetInit /\ [][CharsetNext]_vars

\* the charsets of the generators under test: a-c; a-c,pq; a-b,a-c; a,aa
GeneratorChars ==
    { << <<97, DASH, 99>> >>,
      << <<97, DASH, 99>>, <<112, 113>> >>,
      << <<97, DASH, 98>>, <<97, DASH, 99>> >>,
      << <<97>>, <<97, 97>> >> }

GeneratorInit ==
    /\ enumeration \in { NewEnumeration(Charset(p), mi, ma) :
                           p \in GeneratorChars,
                           mi \in 1..MaxRepeat, ma \in 1..MaxRepeat }
    /\ charset = Charset(CharsAB)
    /\ lookup = NoLookup
    /\ iteration = NewIteration
    /\ roundtrip = NewRoundTrip(<<97>>)
    /\ args = [tasks |-> 1, dirlist |-> [given |-> FALSE, lines |-> <<>>],
               chars |-> CharsAB, min |-> 1, max |-> 1, recursive |-> FALSE,
               extensions |-> NoExtensions, host |-> <<104>>]
    /\ net = [valid |-> {}, error |-> {}]
    /\ BeforeStart

GeneratorNext ==
    \/ CharsetGenerator_next_call
    \/ CharsetGenerator_iter_call

GeneratorSpec == GeneratorInit /\ [][GeneratorNext]_vars

\* the characters of the texts under test: a, c, '-', ',', '\', newline
TextChars == {97, 99, DASH, COMMA, BACKSLASH, NEWLINE}

Texts == UNION { [1..n -> TextChars] : n \in 1..MaxText }

RoundTripInit ==
    /\ roundtrip \in { NewRoundTrip(t) : t \in Texts }
    /\ charset = Charset(CharsAB)
    /\ lookup = NoLookup
    /\ iteration = NewIteration
    /\ enumeration = NewEnumeration(Charset(CharsAB), 1, 1)
    /\ args = [tasks |-> 1, dirlist |-> [given |-> FALSE, lines |-> <<>>],
               chars |-> CharsAB, min |-> 1, max |-> 1, recursive |-> FALSE,
               extensions |-> NoExtensions, host |-> <<104>>]
    /\ net = [valid |-> {}, error |-> {}]
    /\ BeforeStart

RoundTripNext ==
    \/ CharsetType_convert_call
    \/ Charset_str_call

RoundTripSpec == RoundTripInit /\ [][RoundTripNext]_vars

(***************************************************************************)
(* Notions the properties are stated in.                                   *)
(***************************************************************************)
Range(xs) == { xs[i] : i \in DOMAIN xs }

\* found as a set of URLs
FoundSet == Range(session.found)

\* the run is over: start() returned and hbuster() prints the time
Terminated == phase = "finished"

\* the extensions the session tries
TriedExtensions == Range(hbuster_extensions(args.extensions))

\* the candidates of the source as they are put into a path
Words == { strip(w) : w \in Range(Candidates(args)) }

\* the candidate paths below one prefix
PathsBelow(prefix) == { prefix \o <<SLASH>> \o w : w \in Words }

\* a candidate path tests valid when the collaborator reports a valid
\* status for it with one of the tried extensions
TestsValid(path) == \E e \in TriedExtensions : path \o e \in net.valid

RECURSIVE ValidClosure(_)
\* the least set of prefixes that holds P and every candidate path below
\* one of its members that tests valid
ValidClosure(P) ==
    LET more == P \cup { p \in UNION { PathsBelow(q) : q \in P } : TestsValid(p) }
    IN IF more = P THEN P ELSE ValidClosure(more)

\* every path + extension below a set of prefixes
ProbesBelow(P) ==
    { p \o e : p \in UNION { PathsBelow(q) : q \in P }, e \in TriedExtensions }

URLs(paths) == { hbuster_host(args.host) \o p : p \in paths }

RECURSIVE SequentialRun(_, _)
\* the run of a session with the single worker 0, to its end: the worker is
\* resumed as soon as it is suspended.  Gives found, or "raised" with what was
\* found when a request raised.
SequentialRun(r, source) ==
    IF r.task.pc # "testPath"
    THEN [ended |-> r.task.pc, found |-> Range(r.session.found)]
    ELSE LET path == TestedPath(r.session, r.task)
         IN IF path \in net.error
            THEN [ended |-> "crashed", found |-> Range(r.session.found)]
            ELSE SequentialRun(task_resume(r.session, 0, source, r.task,
                                           path \in net.valid), source)

\* what the same command line finds with --tasks 1
SequentialFound ==
    SequentialRun(task_while(HBusterSession_init([args EXCEPT !.tasks = 1]),
                             0, candidates), candidates).found

(***************************************************************************)
(* Properties.                                                             *)
(***************************************************************************)
WordListAB == << <<97, NEWLINE>>, <<98, NEWLINE>> >>
PathA == <<SLASH, 97>>
PathAB == <<SLASH, 97, SLASH, 98>>
AllDone == \A id \in Workers : tasks[id].pc = "done"

\* C1: without --recursive, with a finite source and a collaborator that
\* answers every request, a run that has started ends for every number of
\* workers: every worker returns, start() returns, and the job list is
\* then empty.
C1_NonRecursiveRunTerminates ==
    (phase = "running" /\ ~args.recursive /\ net.error = {})
        ~> (Terminated /\ AllDone /\ session.workPools = <<>>)

C1_Witness ==
    /\ Terminated /\ ~args.recursive /\ net.error = {}
    /\ args.tasks = 2 /\ session.workPools = <<>> /\ returns >= 4

\* C2: the job list never holds two entries with the same prefix.
C2_NoTwoJobsWithTheSamePrefix ==
    \A i, j \in DOMAIN session.workPools :
        i # j => session.workPools[i] # session.workPools[j]

\* C3: without --recursive, when the run has terminated, found holds (as a
\* set) exactly host + '/' + w + e for the candidates w of the source (as
\* stripped by the worker), the tried extensions e and a valid status of
\* '/' + w + e.
C3_NonRecursiveFoundIsExact ==
    (Terminated /\ ~args.recursive)
        => FoundSet = URLs(ProbesBelow({<<>>}) \cap net.valid)

\* word list [a, b], only /a valid, 1 worker: exactly {host + /a}
C3_Witness ==
    /\ Terminated /\ ~args.recursive /\ args.tasks = 1
    /\ args.dirlist.given /\ args.dirlist.lines = WordListAB
    /\ net.valid = {PathA}
    /\ FoundSet = {<<104>> \o PathA}

\* C4: with --recursive, when the run has terminated, every candidate path
\* below the root and below every candidate path that tested valid has been
\* probed with every extension, nothing else has, and found holds (as a set)
\* host + p + e for exactly the valid ones among them.
C4_RecursiveFoundIsTheClosure ==
    (Terminated /\ args.recursive)
        => /\ probed = ProbesBelow(ValidClosure({<<>>}))
           /\ FoundSet = URLs(ProbesBelow(ValidClosure({<<>>})) \cap net.valid)

\* word list [a, b], /a and /a/b valid: exactly these two URLs
C4_Witness ==
    /\ Terminated /\ args.recursive /\ args.tasks = 2
    /\ args.dirlist.given /\ args.dirlist.lines = WordListAB
    /\ net.valid = {PathA, PathAB}
    /\ FoundSet = {<<104>> \o PathA, <<104>> \o PathAB}

\* C5: when the run has terminated, found is (as a set) what the same
\* command line finds with a single worker: it depends neither on the
\* number of workers nor on the order in which the responses arrive.
C5_FoundIsTheSameForEveryWorkerCount ==
    Terminated => FoundSet = SequentialFound

C5_Witness ==
    /\ Terminated /\ args.tasks = 2 /\ args.recursive
    /\ Cardinality(FoundSet) = 2
    /\ Len(session.found) = 2 /\ session.found[1] = <<104>> \o PathAB

\* C6: a request that fails with a transport error ends neither its worker
\* nor the run: no worker is ever ended by an exception and the run is
\* never aborted.
C6_TransportErrorIsLocal ==
    /\ \A id \in Workers : tasks[id].pc # "crashed"
    /\ phase # "aborted"

\* C7: with the generator (no word list) and min > max the start fails with
\* the invalid-range error; with a word list min > max is no error.
C7_RangeCheckedOnlyForTheGenerator ==
    (phase # "cli" /\ args.min > args.max /\ CharsetType_convert(args.chars).ok)
        => (phase = "BadParameter" <=> ~args.dirlist.given)

\* C8: requestCount is the number of calls of testPath that have returned,
\* whatever they returned.
C8_RequestsCountTheTests ==
    session.requests = returns

C8_Witness ==
    /\ args.tasks = 2 /\ session.requests >= 3
    /\ session.found # <<>> /\ Len(session.found) < session.requests
    /\ \E id \in Workers : tasks[id].pc = "testPath"

\* C9: for every index in [0, length), charset[index] is the index-th
\* symbol the iteration of the charset yields.
C9_GetItemAgreesWithIteration ==
    /\ \A i \in 1..Len(iteration.out) :
          Charset_getitem(charset, i - 1) = Value(iteration.out[i])
    /\ (lookup.called /\ lookup.index >= 0
                      /\ lookup.index < Charset_len(charset))
          => /\ lookup.index < Len(Charset_iter(charset))
             /\ lookup.result = Value(Charset_iter(charset)[lookup.index + 1])

\* the third symbol, taken from a second piece that is a range
C9_Witness ==
    /\ lookup.called /\ lookup.index = 2
    /\ Len(charset.pieces) = 2 /\ charset.sizes = <<1, 2>>
    /\ Len(iteration.out) = 3
    /\ lookup.result = Value(iteration.out[3])

\* C10: charset[index] raises an index error for every index >= length.
C10_GetItemRaisesBeyondTheEnd ==
    (lookup.called /\ lookup.index >= Charset_len(charset))
        => lookup.result.kind = "IndexError"

\* the symbols of one stored piece: the token of a literal piece, or the
\* characters from the lower end of a range up to, not including, its upper
\* end
SymbolsOf(piece) ==
    IF Len(piece) = 1
    THEN <<piece[1]>>
    ELSE [k \in 1..(piece[2][1] - piece[1][1]) |-> <<piece[1][1] + k - 1>>]

\* C11: the length of a Charset is the sum of its piece sizes, 1 for a
\* literal piece and high - low for a range piece with low < high, and an
\* iteration yields exactly that many symbols: the symbols of the pieces in
\* piece order, a range in ascending code points.
C11_LengthIsTheNumberOfSymbolsYielded ==
    /\ \A k \in DOMAIN charset.pieces :
          IF Len(charset.pieces[k]) = 1
          THEN charset.sizes[k] = 1
          ELSE /\ charset.pieces[k][1][1] < charset.pieces[k][2][1]
               /\ charset.sizes[k] =
                      charset.pieces[k][2][1] - charset.pieces[k][1][1]
    /\ Len(iteration.out) <= Charset_len(charset)
    /\ iteration.out =
          SubSeq(join([k \in DOMAIN charset.pieces |->
                          SymbolsOf(charset.pieces[k])]),
                 1, Len(iteration.out))
    /\ iteration.stopped => Len(iteration.out) = Charset_len(charset)

\* c-a and pq: the iteration ended after a, b, pq
C11_Witness ==
    /\ iteration.stopped
    /\ charset.pieces = << << <<97>>, <<99>> >>, << <<112, 113>> >> >>
    /\ iteration.out = << <<97>>, <<98>>, <<112, 113>> >>
    /\ Charset_len(charset) = 3

RECURSIVE Power(_, _)
Power(n, k) == IF k = 0 THEN 1 ELSE n * Power(n, k - 1)

\* the i-th tuple, counted from 0, of the l-tuples over symbols 1..n in
\* odometer order: position d holds digit d of i written in base n
OdometerTuple(n, l, i) ==
    [d \in 1..l |-> ((i \div Power(n, l - d)) % n) + 1]

\* what an enumeration of lengths mi..ma over the symbols syms is to yield
Enumerated(syms, mi, ma) ==
    join([d \in 1..(IF ma >= mi THEN ma - mi + 1 ELSE 0) |->
            [i \in 1..Power(Len(syms), mi + d - 1) |->
                join([k \in 1..(mi + d - 1) |->
                        syms[OdometerTuple(Len(syms), mi + d - 1, i - 1)[k]]])]])

NoDuplicates(xs) ==
    \A i, j \in DOMAIN xs : xs[i] = xs[j] => i = j

\* the strings an enumeration has yielded are pairwise different
C12_EnumerationYieldsNoStringTwice ==
    NoDuplicates(enumeration.out)

\* C12: for 1 <= m <= M an enumeration yields, for l = m..M in order, the
\* concatenation of every l-tuple of symbols in odometer order, the sum of
\* n^l strings in all, and a second enumeration yields the same sequence;
\* the strings are pairwise different when the symbols are pairwise
\* different single characters.
C12_EnumerationIsTheOdometerOrder ==
    LET syms == Charset_iter(enumeration.chars)
        expected == Enumerated(syms, enumeration.min, enumeration.max)
    IN enumeration.min <= enumeration.max =>
         /\ enumeration.out = SubSeq(expected, 1, Len(enumeration.out))
         /\ enumeration.stopped =>
               Len(enumeration.out) =
                  sum([d \in 1..(enumeration.max - enumeration.min + 1) |->
                         Power(Len(syms), enumeration.min + d - 1)])
         /\ enumeration.pass = 2 => enumeration.before = expected
         /\ enumeration.pass = 2 /\ enumeration.stopped =>
               enumeration.out = enumeration.before
         /\ (NoDuplicates(syms) /\ \A k \in DOMAIN syms : Len(syms[k]) = 1) =>
               NoDuplicates(enumeration.out)

\* a-c,pq with lengths 1..2: the second enumeration ended after the same
\* twelve strings a, b, pq, aa, ab, apq, ba, ... as the first
C12_Witness ==
    /\ enumeration.pass = 2
    /\ enumeration.stopped
    /\ enumeration.min = 1
    /\ enumeration.max = 2
    /\ Len(enumeration.out) = 12
    /\ enumeration.out[5] = <<97, 98>>
    /\ enumeration.out[6] = <<97, 112, 113>>
    /\ enumeration.out[7] = <<98, 97>>
    /\ enumeration.out = enumeration.before

\* the second conversion gave the piece structure of the first
SameStructure ==
    /\ roundtrip.second.ok
    /\ roundtrip.second.pieces = roundtrip.first.pieces
    /\ roundtrip.second.sizes = roundtrip.first.sizes

\* a piece of the first Charset holds a comma or a backslash
HoldsSeparatorOrEscape ==
    \E k \in DOMAIN roundtrip.first.pieces :
       \E j \in DOMAIN roundtrip.first.pieces[k] :
          \E i \in DOMAIN roundtrip.first.pieces[k][j] :
             roundtrip.first.pieces[k][j][i] \in {COMMA, BACKSLASH}

\* converting the str() of a converted Charset gives the same pieces and
\* sizes, whatever the text was
C13_EveryTextRoundTrips ==
    roundtrip.stage = "reparsed" => SameStructure

\* C13: when a text converts to a Charset none of whose pieces holds a comma
\* or a backslash, converting the str() of that Charset gives the same
\* pieces and sizes.
C13_TextWithoutSeparatorInAPieceRoundTrips ==
    roundtrip.stage = "reparsed" /\ ~HoldsSeparatorOrEscape => SameStructure

\* the text \-,a : the pieces - and a, printed as -,a and converted again
C13_Witness ==
    /\ roundtrip.stage = "reparsed"
    /\ roundtrip.text = <<BACKSLASH, DASH, COMMA, 97>>
    /\ roundtrip.first.pieces = << << <<DASH>> >>, << <<97>> >> >>
    /\ roundtrip.str = <<DASH, COMMA, 97>>
    /\ SameStructure

\* the extension list the --extensions option asks for: the empty extension,
\* then the configured one behind a '.'
ConfiguredExtensions(e) ==
    IF e.given THEN << <<>>, <<DOT>> \o e.value >> ELSE << <<>> >>

\* C14: the extensions a session tries for a candidate are the empty
\* extension first and then each configured extension behind a '.'; without
\* configured extensions, the empty extension alone.
C14_TriesTheConfiguredExtensions ==
    phase \in {"running", "finished", "aborted"} =>
       session.extensions = ConfiguredExtensions(args.extensions)

\* C15: the run ends for all workers together when the job list empties:
\* while the session runs with an empty job list, no worker is inside a
\* path test (so none can append a job or record a discovery afterwards,
\* and none works on while the others have stopped).
C15_NoWorkerInsideATestWhenTheJobListIsEmpty ==
    phase = "running" /\ session.workPools = <<>> =>
       \A id \in Workers : tasks[id].pc # "testPath"

\* worker id is the one whose path test never returns
Hung(id) == id \in Workers /\ tasks[id].pc = "hung"

\* C16: when the path test of one of two or more workers never returns, only
\* that worker is stalled: as long as a job is in the list, one of the other
\* workers is still at work on the candidates (so every source gets
\* exhausted and the list gets empty).
C16_TheOtherWorkersKeepWorkingWhileAJobIsLeft ==
    \A id \in Workers :
       Hung(id) /\ session.workPools # <<>> =>
          \E j \in Workers \ {id} : tasks[j].pc = "testPath"

\* C17: a worker that finds a source exhausted removes the job of that
\* source together with that source and nothing else: the job list and the
\* source list are equally long, the source at position i is the one made
\* for the job at position i, every job was removed with its own source and
\* only when that source was exhausted, one job per removal, and the index
\* id mod len(jobs) of every worker is an index of both lists.
C17_AJobIsRemovedWithItsOwnExhaustedSource ==
    /\ Len(session.workPools) = Len(session.poolFiles)
    /\ session.jobIds = session.fileIds
    /\ \A r \in session.removed :
          r.job = r.file /\ r.position = Len(candidates)
    /\ Len(session.workPools) + Cardinality(session.removed) = session.jobsMade
    /\ session.workPools # <<>> =>
          \A id \in Workers :
             (id % Len(session.workPools)) + 1 \in
                DOMAIN session.workPools \cap DOMAIN session.poolFiles

\* the root job was removed while the job of /a, appended after it, stayed:
\* it moved to the first position with its source
C17_Witness ==
    /\ phase = "running"
    /\ session.workPools = <<PathA>>
    /\ session.jobIds = <<2>>
    /\ session.fileIds = <<2>>
    /\ \E r \in session.removed : r.job = 1 /\ r.file = 1
    /\ \E id \in Workers : tasks[id].pc = "testPath"

\* C18: seen holds the prefix of every job ever made, the root prefix ''
\* included; the prefix of a job is in seen whenever the job is in the job
\* list, and stays in seen when the job is removed.
C18_SeenHoldsThePrefixOfEveryJobEverMade ==
    /\ Range(session.workPools) \subseteq session.everJobs
    /\ session.everJobs \subseteq session.seen
    /\ phase \in {"running", "finished", "aborted"} => <<>> \in session.seen

\* /a was found and made a job, and its job and the root job have been
\* removed since: both prefixes are still in seen
C18_Witness ==
    /\ PathA \in session.everJobs
    /\ session.workPools = <<>>
    /\ Cardinality(session.removed) >= 2
    /\ {<<>>, PathA} \subseteq session.seen

\* C19: every job gets a source of its own that gives the candidates from
\* the first one on, wherever the other sources stand, and a source moves
\* only when an element is taken from it: each source, in the list or
\* removed, stands at the number of elements taken from it, and the first
\* element it gave is the first candidate.
C19_EverySourceStartsAtTheFirstCandidateAndMovesAlone ==
    /\ \A i \in DOMAIN session.poolFiles :
          /\ session.poolFiles[i] = Len(session.yielded[i])
          /\ session.yielded[i] # <<>> => session.yielded[i][1] = 0
    /\ \A r \in session.removed :
          /\ r.position = Len(r.yielded)
          /\ r.yielded # <<>> => r.yielded[1] = 0

\* the root source has given two candidates; the source of the job /a, made
\* after the root source had moved on, has given the first candidate only
C19_Witness ==
    /\ session.workPools = << <<>>, PathA >>
    /\ session.fileIds = <<1, 2>>
    /\ session.poolFiles = <<2, 1>>
    /\ session.yielded = << <<0, 1>>, <<0>> >>

\* the indices 0, 1, ..., n - 1
FirstIndices(n) == [j \in 1..n |-> j - 1]

\* C20: every element of a job's source is taken exactly once, also when
\* several workers take from the same job while others are suspended: what
\* a source has given is an initial part of the candidates, each position
\* once and none passed over, and a removed source has given them all.
C20_EveryElementOfASourceIsTakenOnce ==
    /\ \A i \in DOMAIN session.poolFiles :
          /\ Len(session.yielded[i]) <= Len(candidates)
          /\ session.yielded[i] = FirstIndices(Len(session.yielded[i]))
    /\ \A r \in session.removed :
          r.yielded = FirstIndices(Len(candidates))

\* two workers are suspended in tests of two candidates taken from the one
\* job of the list, the first two of its source
C20_Witness ==
    /\ Len(session.workPools) = 1
    /\ session.yielded = << <<0, 1>> >>
    /\ \A id \in {0, 1} : id \in Workers /\ tasks[id].pc = "testPath"
    /\ tasks[0].path = <<SLASH>> \o strip(candidates[1])
    /\ tasks[1].path = <<SLASH>> \o strip(candidates[2])

====
